---- MODULE Spec2Model ----
(***************************************************************************)
(* frost: incremental synchronisation of weather observations from the     *)
(* measurement API into the metrics store (src/frost/__init__.py).         *)
(*                                                                         *)
(* One run of main() is modelled as a sequential process whose steps are   *)
(* the code between two blocking network calls.  The store and the API are *)
(* the environment: every response is a nondeterministic choice.           *)
(*                                                                         *)
(* Instants are records [sec, us]: whole seconds since the epoch and the   *)
(* microseconds within the second (pendulum's DateTime resolution).        *)
(***************************************************************************)
EXTENDS Integers, Sequences, FiniteSets, TLC

\* Optional values: None, or Some(x) holding x
None == << >>
Some(x) == << x >>
Get(o) == o[1]

\* ------------------------------------------------------------------ time

UsPerSec == 1000000
SecPerDay == 86400

Instant(s, u) == [sec |-> s, us |-> u]

\* DateTime.__lt__ / __le__
Before(a, b) == a.sec < b.sec \/ (a.sec = b.sec /\ a.us < b.us)
NotAfter(a, b) == a = b \/ Before(a, b)

\* pendulum.duration(days, seconds, microseconds, milliseconds, ...): the
\* first two positional parameters are days and seconds.
Duration(days, seconds) == [sec |-> days * SecPerDay + seconds, us |-> 0]

\* the same length written in milliseconds (used to state claims)
Milliseconds(n) == [sec |-> n \div 1000, us |-> (n % 1000) * 1000]

\* DateTime.__add__(Duration)
Plus(t, d) ==
    LET u == t.us + d.us
    IN  [sec |-> t.sec + d.sec + (u \div UsPerSec), us |-> u % UsPerSec]

\* the element of a one-element set (binds an intermediate value once)
Only(S) == CHOOSE x \in S : TRUE

\* proleptic Gregorian calendar: days since 1970-01-01 <-> (year, month, day).
\* z: days since 0000-03-01; era: 400-year cycle; doe, yoe: day and year of
\* the era; doy: day of the year that starts in March; mp: month from March.
CivilFromDays(z0) ==
    Only({ Only({ Only({ Only({ Only({
        [year  |-> yoe + era * 400 + (IF mp < 10 THEN 0 ELSE 1),
         month |-> IF mp < 10 THEN mp + 3 ELSE mp - 9,
         day   |-> doy - ((153 * mp + 2) \div 5) + 1]
      : mp  \in { (5 * doy + 2) \div 153 } })
      : doy \in { (z % 146097) - (365 * yoe + (yoe \div 4) - (yoe \div 100)) } })
      : yoe \in { ((z % 146097) - ((z % 146097) \div 1460) + ((z % 146097) \div 36524)
                     - ((z % 146097) \div 146096)) \div 365 } })
      : era \in { z \div 146097 } })
      : z   \in { z0 + 719468 } })

DaysFromCivil(y0, m, d) ==
    LET y   == IF m <= 2 THEN y0 - 1 ELSE y0
        era == y \div 400
        yoe == y - era * 400
        doy == ((153 * (IF m > 2 THEN m - 3 ELSE m + 9) + 2) \div 5) + d - 1
        doe == yoe * 365 + (yoe \div 4) - (yoe \div 100) + doy
    IN  era * 146097 + doe - 719468

\* the wall-clock fields of an instant in the zone with UTC offset `off` seconds
ToCivil(t, off) ==
    Only({ Only({
        [year |-> c.year, month |-> c.month, day |-> c.day,
         hour |-> (local % SecPerDay) \div 3600,
         minute |-> (local % 3600) \div 60,
         second |-> local % 60, us |-> t.us]
      : c \in { CivilFromDays(local \div SecPerDay) } })
      : local \in { t.sec + off } })

\* the instant of wall-clock fields `c` read in the zone with offset `off`
FromCivil(c, off) ==
    Instant(DaysFromCivil(c.year, c.month, c.day) * SecPerDay
              + c.hour * 3600 + c.minute * 60 + c.second - off,
            c.us)

\* pendulum.parse(<ISO-8601 string>): the string's fields read as UTC
ParseIso(c) == FromCivil(c, 0)

\* DateTime.to_iso8601_string() of a UTC DateTime
ToIso8601(t) == ToCivil(t, 0)

\* DateTime.start_of('month') in the DateTime's own zone
StartOfMonth(t, off) ==
    Only({ FromCivil(c, off)
           : c \in { [ToCivil(t, off) EXCEPT !.day = 1, !.hour = 0, !.minute = 0,
                                             !.second = 0, !.us = 0] } })

\* ------------------------------------------------- decimal strings, text

\* A decimal string is a sequence of characters "0".."9" and at most one ".".
DigitValue(ch) ==
    CASE ch = "0" -> 0 [] ch = "1" -> 1 [] ch = "2" -> 2 [] ch = "3" -> 3
      [] ch = "4" -> 4 [] ch = "5" -> 5 [] ch = "6" -> 6 [] ch = "7" -> 7
      [] ch = "8" -> 8 [] ch = "9" -> 9

RECURSIVE DigitsValue(_)
DigitsValue(s) ==
    IF s = <<>> THEN 0
    ELSE 10 * DigitsValue(SubSeq(s, 1, Len(s) - 1)) + DigitValue(s[Len(s)])

RECURSIVE Pow10(_)
Pow10(n) == IF n = 0 THEN 1 ELSE 10 * Pow10(n - 1)

DotAt(s) ==
    IF \E i \in 1..Len(s) : s[i] = "."
    THEN CHOOSE i \in 1..Len(s) : s[i] = "."
    ELSE Len(s) + 1

\* float(s) for a decimal string with at most six fractional digits, as
\* whole units and millionths
ParseFloat(s) ==
    LET dot  == DotAt(s)
        frac == SubSeq(s, dot + 1, Len(s))
    IN  [int |-> DigitsValue(SubSeq(s, 1, dot - 1)),
         millionths |-> DigitsValue(frac) * Pow10(6 - Len(frac))]

\* pendulum.from_timestamp(x)
FromTimestamp(x) == Instant(x.int, x.millionths)

\* 'No data found' in str(e): the message holds the phrase
NoDataPhrase == <<"No", "data", "found">>

ContainsPhrase(msg, phrase) ==
    \E i \in 1..(Len(msg) - Len(phrase) + 1) :
        SubSeq(msg, i, i + Len(phrase) - 1) = phrase

\* ------------------------------------------------------------ the program

\* the metric list of main()'s loop
Catalog ==
    << [element_id |-> "air_temperature",   metric_name |-> "temperature_met"],
       [element_id |-> "relative_humidity", metric_name |-> "humidity_met"] >>

FROST_SENSOR_ID == "SN19780"

\* lookback parameter default of get_last_timestamp_in_metric
DefaultLookback == "1d"

\* the lookback the empty-result branch retries with
WidestLookback == "30d"

\* (variant) the status of the answer is not looked at
QueryRejectedNever(status) == FALSE

\* "if not 200 <= res.status_code < 300: raise"
QueryRejected(status) == ~(200 <= status /\ status < 300)

\* (variant) an empty result is always retried
RetriesWiderAlways(lb) == TRUE

\* "except IndexError: if lookback != '30d': return <recursive call>"
RetriesWider(lb) == lb # WidestLookback

\* (variant) the fallback is the current time itself
FallbackWatermarkNow(now, off) == now

\* "return pendulum.now().start_of('month')"; pendulum.now() is in the local zone
FallbackWatermark(now, off) == StartOfMonth(now, off)

\* "pendulum.from_timestamp(float(timestamp_s))"
WatermarkOf(timestamp_s) == FromTimestamp(ParseFloat(timestamp_s))

\* (variant) the step is two seconds
WatermarkStepTwo == Duration(0, 2)

\* (variant) the step is one millisecond
WatermarkStepMs == Milliseconds(1)

\* "get_last_timestamp_in_metric(metric_name) + pendulum.duration(0, 1)"
WatermarkStep == Duration(0, 1)

\* (variant) the comparison is the other way round
WindowInvalidSwapped(start, end) == Before(start, end)

\* "if end_time < start_time_: ... continue"
WindowInvalid(start, end) == Before(end, start)

\* (variant) the upper end of the range is accepted too
WriteAcceptedUpTo300(status) == 200 <= status /\ status <= 300

\* "if 200 <= res.status_code < 300" of the write
WriteAccepted(status) == 200 <= status /\ status < 300

\* (variant) the message must be the phrase and nothing else
IsNoDataExact(msg) == msg = NoDataPhrase

\* "if 'No data found' in str(e)"
IsNoData(msg) == ContainsPhrase(msg, NoDataPhrase)

\* (variant) the counter is set instead of incremented
CountFailureSet(n) == 1

\* "error_count = error_count + 1"
CountFailure(n) == n + 1

\* (variant) a single failure is tolerated
ExitStatusAboveOne(n) == IF n > 1 THEN 1 ELSE 0

\* "if error_count > 0: exit(1)"; falling off main() ends the process with 0
ExitStatus(n) == IF n > 0 THEN 1 ELSE 0

\* (variant) two arguments are not enough
HasExplicitWindowStrict(args) == Len(args) > 3

\* "if len(sys.argv) >= 3"
HasExplicitWindow(args) == Len(args) >= 3

\* the request parameters of get_observation_samples
FetchParams(element_id, from_time, to_time) ==
    [sources |-> FROST_SENSOR_ID,
     referencetime |-> IF from_time # None /\ to_time # None
                       THEN << ToIso8601(Get(from_time)), ToIso8601(Get(to_time)) >>
                       ELSE << "latest" >>,
     elements |-> element_id]

\* 1000 * int_timestamp, kept as its thousands and its remainder
MillisOfSeconds(s) == [thousands |-> s, rest |-> 0]

\* (variant) the milliseconds of the reference time are kept
SampleOfWithMillis(measurement) ==
    << [thousands |-> ParseIso(measurement.referenceTime).sec,
        rest |-> ParseIso(measurement.referenceTime).us \div 1000],
       ParseFloat(measurement.observations[1].value) >>

\* one [timestamp, value] sample of get_observation_samples
SampleOf(measurement) ==
    << MillisOfSeconds(ParseIso(measurement.referenceTime).sec),
       ParseFloat(measurement.observations[1].value) >>

\* a measurement whose first observation cannot be read (IndexError)
Unreadable(measurement) == Len(measurement.observations) = 0

\* (variant) the samples are sorted by time and a repeated time is dropped
BuildTimeseriesSorted(data, metric_name) ==
    [labels |-> [name |-> metric_name, location |-> "outside",
                 sensor |-> FROST_SENSOR_ID],
     samples |-> LET secs == { ParseIso(data[i].referenceTime).sec :
                                   i \in 1..Len(data) }
                     nth[k \in 0..Cardinality(secs)] ==
                         IF k = 0 THEN << >>
                         ELSE LET prev == nth[k - 1]
                                  left == { x \in secs :
                                              \A j \in 1..Len(prev) : prev[j] # x }
                                  least == CHOOSE x \in left : \A y \in left : x <= y
                              IN  Append(prev, least)
                 IN  [k \in 1..Cardinality(secs) |->
                        SampleOf(data[CHOOSE i \in 1..Len(data) :
                                   ParseIso(data[i].referenceTime).sec
                                       = nth[Cardinality(secs)][k]])]]

\* lines 56-77: one sample per measurement, in the order of the list
BuildTimeseries(data, metric_name) ==
    [labels |-> [name |-> metric_name, location |-> "outside",
                 sensor |-> FROST_SENSOR_ID],
     samples |-> [i \in 1..Len(data) |-> SampleOf(data[i])]]

\* (variant) the message leaves out the text of the response
QueryErrorTextNoBody(metric_name, text) ==
    << "Unable", "to", "get", "last", "timestamp", "of", metric_name >>

\* texts of the exceptions the code and its libraries raise
QueryErrorText(metric_name, text) ==
    << "Unable", "to", "get", "last", "timestamp", "of", metric_name >> \o text
ApiErrorText(err) == err.message \o << "-" >> \o err.reason
TransportErrorText == << "Connection", "refused" >>
JsonErrorText == << "Expecting", "value" >>
IndexErrorText == << "list", "index", "out", "of", "range" >>

\* ------------------------------------------------------- the environment

\* the second 2023-12-01T00:00:00Z starts with, a month boundary
MonthEdge == DaysFromCivil(2023, 12, 1) * SecPerDay

\* the clock is read in half-second ticks from one second before MonthEdge
ClockTicks == 2
ClockValues ==
    { Instant(MonthEdge - 1 + (k \div 2), (k % 2) * 500000) : k \in 0..ClockTicks }

\* UTC offsets of the host's local zone
LocalOffsets == {0, 7200}

\* command lines: no window, or <start> <end>
ArgTimes ==
    { [year |-> 2023, month |-> 11, day |-> 30, hour |-> 0, minute |-> 0,
       second |-> 0, us |-> 0],
      [year |-> 2023, month |-> 12, day |-> 1, hour |-> 0, minute |-> 0,
       second |-> 0, us |-> 0] }
Argvs == { << "frost" >> } \cup { << "frost", a, b >> : a, b \in ArgTimes }

\* values the store reports as the last timestamp of a metric
Str1700000000  == << "1","7","0","0","0","0","0","0","0","0" >>
Str1701388798h == << "1","7","0","1","3","8","8","7","9","8",".","5" >>
Str1701388900  == << "1","7","0","1","3","8","8","9","0","0" >>
StoreValues == { Str1700000000, Str1701388798h, Str1701388900 }

JsonBody(result) == [kind |-> "json", result |-> result, text |-> << "json" >>]
TextBody(words)  == [kind |-> "text", result |-> << >>, text |-> words]

QueryBodies ==
    { JsonBody(<< >>) }
      \cup { JsonBody(<< [value |-> << "t", v >>] >>) : v \in StoreValues }
      \cup { TextBody(<< "Bad", "Gateway" >>) }
ErrorBodies ==
    { TextBody(<< "Bad", "Gateway" >>), TextBody(NoDataPhrase), JsonBody(<< >>) }

Statuses == {199, 200, 299, 300}

Http(status, body) == [failed |-> FALSE, status |-> status, body |-> body]
NoResponse == [failed |-> TRUE, status |-> 0, body |-> TextBody(<< >>)]

QueryResponses ==
    { Http(s, b) : s \in {200, 299}, b \in QueryBodies }
      \cup { Http(s, b) : s \in {199, 300}, b \in ErrorBodies }
      \cup { NoResponse }

WriteResponses ==
    { Http(s, TextBody(<< >>)) : s \in Statuses \cup {204, 500} } \cup { NoResponse }

Measurement(sec, values) ==
    [referenceTime |-> [year |-> 2023, month |-> 1, day |-> 1, hour |-> 0,
                        minute |-> 0, second |-> sec, us |-> 0],
     observations |-> [i \in 1..Len(values) |-> [value |-> values[i]]]]
M5 == Measurement(5, << << "1", ".", "5" >>, << "9" >> >>)
M7 == Measurement(7, << << "2" >> >>)
M9 == Measurement(9, << >>)
\* the reference time of M5 and half a second
M5h == [referenceTime |-> [Measurement(5, << >>).referenceTime EXCEPT !.us = 500000],
        observations |-> << [value |-> << "2" >>], [value |-> << "9" >>] >>]
DataLists == { << >>, << M7, M5 >>, << M9 >> }

ApiErrors ==
    { [message |-> NoDataPhrase, reason |-> << "No", "data", "found", "for", "source" >>],
      [message |-> << "Invalid", "parameter" >>, reason |-> << "not", "understood" >>] }

NoError == [message |-> << >>, reason |-> << >>]
ApiData(d) == [failed |-> FALSE, kind |-> "data", data |-> d, error |-> NoError]
ApiError(e) == [failed |-> FALSE, kind |-> "error", data |-> << >>, error |-> e]
ApiNoResponse == [failed |-> TRUE, kind |-> "none", data |-> << >>, error |-> NoError]
ApiResponses ==
    { ApiData(d) : d \in DataLists } \cup { ApiError(e) : e \in ApiErrors }
      \cup { ApiNoResponse }

\* ------------------------------------------------------------------ state

VARIABLES
    argv,          \* sys.argv
    local_offset,  \* UTC offset of the host's local zone, in seconds
    clock,         \* the latest reading of the wall clock
    pc,            \* position of main()
    start_time,    \* main: Optional start of the explicit window
    end_time,      \* main: Optional end of the window
    idx,           \* main: index in Catalog of the metric the loop is at
    watermark,     \* main: Optional value the resolver returned for this metric
    start_time_,   \* main: Optional start of the current metric's window
    timeseries,    \* main: Optional payload built from the fetch
    error_count,   \* main: number of failed metrics
    exc,           \* text of the exception in flight (empty when none)
    exit_status,   \* Optional exit status of the process
    rpc,           \* position of get_last_timestamp_in_metric
    lookback,      \* resolver: the lookback argument of the current call
    result,        \* resolver: Optional returned timestamp
    calls,         \* resolver: <<lookback, response>> of each query of this resolution
    log,           \* the requests sent for the metric in progress, in order
    sent,          \* per metric and kind, the requests sent in the run: how many
                   \* (n), and how many were answered outside [200,300) (refused)
    outcome,       \* per metric, the terminal state its processing logged
    cache_on,      \* whether requests_cache could be imported and was installed
    cache,         \* per query, the Optional response the installed cache holds
    run,           \* the number of the run of the process
    hits,          \* answers the cache gave to the resolution in progress
    measurements   \* get_observation_samples: the list data["data"]

vars == << argv, local_offset, clock, pc, start_time, end_time, idx, watermark, start_time_,
           timeseries, error_count, exc, exit_status, rpc, lookback, result,
           calls, log, sent, outcome, cache_on, cache, run, hits, measurements >>

mainVars == << pc, start_time, end_time, idx, watermark, start_time_, timeseries,
               error_count, exit_status, outcome >>
history == << log, sent >>
resolverVars == << rpc, lookback, result, calls >>
cacheVars == << cache_on, cache, run, hits >>

Metrics == 1..Len(Catalog)

FirstClock == Instant(MonthEdge - 1, 0)

\* the parameters of the store query
QueryParams(metric_name, lb) ==
    [query |-> << "max_over_time", "timestamp", metric_name, lb >>]

\* the queries a run can send, and a cache that holds no response
CacheKeys ==
    { QueryParams(Catalog[m].metric_name, lb) :
          m \in Metrics, lb \in { DefaultLookback, WidestLookback } }
NothingCached == [k \in CacheKeys |-> None]

\* One run of main().  An answer to a query is whatever requests.get returns,
\* whoever produced it; which answers the installed cache gives is followed
\* over several runs in SpecRuns, so here the cache stays as it is.
Init ==
    /\ argv \in Argvs
    /\ local_offset \in LocalOffsets
    /\ clock = FirstClock
    /\ pc = "start"
    /\ start_time = None
    /\ end_time = None
    /\ idx = 1
    /\ watermark = None
    /\ start_time_ = None
    /\ timeseries = None
    /\ error_count = 0
    /\ exc = << >>
    /\ exit_status = None
    /\ rpc = "idle"
    /\ lookback = DefaultLookback
    /\ result = None
    /\ calls = << >>
    /\ log = << >>
    /\ sent = [m \in Metrics |-> [k \in {"query", "fetch", "write"} |->
                                    [n |-> 0, refused |-> 0]]]
    /\ outcome = [m \in Metrics |-> "Pending"]
    /\ cache_on = FALSE
    /\ cache = NothingCached
    /\ run = 1
    /\ hits = 0
    /\ measurements = << >>

\* pendulum.now(): a reading not earlier than the previous one
ReadClock(c) == c \in ClockValues /\ NotAfter(clock, c) /\ clock' = c

\* the request `r` is sent
Count(r) ==
    sent' = [sent EXCEPT ![r.metric][r.kind] =
                  [n |-> @.n + 1,
                   refused |-> IF ~r.failed /\ r.kind # "fetch"
                                   /\ (r.status < 200 \/ r.status > 299)
                               THEN @.refused + 1 ELSE @.refused]]

Send(r) == log' = Append(log, r) /\ Count(r)

\* the loop moves to the next metric, which logged terminal state `o`; the
\* locals of the loop body are dead from here on (each is assigned again
\* before it is read) and are kept as None, and the log starts afresh
MoveOn(o, next) ==
    /\ outcome' = [outcome EXCEPT ![idx] = o]
    /\ idx' = next
    /\ watermark' = None
    /\ start_time_' = None
    /\ timeseries' = None
    /\ log' = << >>
    /\ pc' = "metric"

\* "for ... in [...]": the iteration ends normally or by "continue"
NextMetric(o) == MoveOn(o, idx + 1)

\* (variant) the failed metric is tried again
AfterFailureRetry(i) == i

\* (variant) the failure ends the loop
AfterFailureAbort(i) == Len(Catalog) + 1

\* the except block ends without re-raising: the loop goes on after metric i
AfterFailure(i) == i + 1

\* lines 123-135: the window of the run
Start ==
    /\ pc = "start"
    /\ IF HasExplicitWindow(argv)
       THEN /\ start_time' = Some(ParseIso(argv[2]))
            /\ end_time' = Some(ParseIso(argv[3]))
            /\ UNCHANGED clock
       ELSE \E c \in ClockValues :
            /\ ReadClock(c)
            /\ start_time' = None
            /\ end_time' = Some(c)
    /\ error_count' = 0
    /\ idx' = 1
    /\ pc' = "metric"
    /\ UNCHANGED << argv, local_offset, watermark, start_time_, timeseries, exc,
                    exit_status, outcome >>
    /\ UNCHANGED history
    /\ UNCHANGED resolverVars
    /\ UNCHANGED << cacheVars, measurements >>

\* lines 136-145: the loop takes the next metric and chooses its window start
BeginMetric ==
    /\ pc = "metric"
    /\ idx <= Len(Catalog)
    /\ IF start_time # None
       THEN /\ start_time_' = start_time
            /\ pc' = "check"
            /\ UNCHANGED resolverVars
       ELSE /\ rpc' = "call"
            /\ lookback' = DefaultLookback
            /\ calls' = << >>
            /\ result' = None
            /\ pc' = "resolving"
            /\ UNCHANGED start_time_
    /\ UNCHANGED << argv, local_offset, clock, start_time, end_time, idx, watermark, timeseries, log,
                    error_count, exc, exit_status, sent, outcome >>
    /\ UNCHANGED << cacheVars, measurements >>

\* one request sent while the loop was at metric m, and how it was answered
Request(kind, m, params, resp) ==
    [kind |-> kind, metric |-> m, params |-> params,
     failed |-> resp.failed, status |-> resp.status]

\* the resolver ends by raising
ResolverRaises(text) ==
    /\ rpc' = "raised"
    /\ exc' = text
    /\ UNCHANGED << lookback, result, clock >>

\* lines 81-105: one call of get_last_timestamp_in_metric, whose query
\* requests.get answered with `resp`
Answered(resp) ==
    /\ Send(Request("query", idx,
                    QueryParams(Catalog[idx].metric_name, lookback), resp))
    /\ calls' = Append(calls, << lookback, resp >>)
    /\ IF resp.failed
       THEN ResolverRaises(TransportErrorText)
       ELSE IF QueryRejected(resp.status)
       THEN ResolverRaises(QueryErrorText(Catalog[idx].metric_name, resp.body.text))
       ELSE IF resp.body.kind # "json"
       THEN ResolverRaises(JsonErrorText)
       ELSE IF Len(resp.body.result) = 0
       THEN IF RetriesWider(lookback)
            THEN /\ lookback' = WidestLookback
                 /\ UNCHANGED << rpc, exc, result, clock >>
            ELSE \E c \in ClockValues :
                 /\ ReadClock(c)
                 /\ result' = Some(FallbackWatermark(c, local_offset))
                 /\ rpc' = "returned"
                 /\ UNCHANGED << lookback, exc >>
       ELSE /\ result' = Some(WatermarkOf(resp.body.result[1].value[2]))
            /\ rpc' = "returned"
            /\ UNCHANGED << lookback, exc, clock >>
    /\ UNCHANGED << argv, local_offset, measurements >>
    /\ UNCHANGED mainVars

\* lines 81-105: one call of get_last_timestamp_in_metric, its query answered
\* with any response
QueryStore ==
    /\ rpc = "call"
    /\ \E resp \in QueryResponses : Answered(resp)
    /\ UNCHANGED cacheVars

\* requests_cache with its defaults (no expiry, allowable_codes = (200,)):
\* the response of a GET is kept when its status is 200
KeptByCache(resp) == ~resp.failed /\ resp.status = 200

\* lines 14-19 and 83-86: the same call in a process where requests.get may
\* be the patched one: a query the cache holds is answered from the cache, and
\* the store is not asked
QueryThroughCache ==
    /\ rpc = "call"
    /\ IF cache_on /\ cache[QueryParams(Catalog[idx].metric_name, lookback)] # None
       THEN /\ Answered(Get(cache[QueryParams(Catalog[idx].metric_name, lookback)]))
            /\ hits' = hits + 1
            /\ UNCHANGED cache
       ELSE \E resp \in QueryResponses :
            /\ Answered(resp)
            /\ cache' = IF cache_on /\ KeptByCache(resp)
                        THEN [cache EXCEPT
                                ![QueryParams(Catalog[idx].metric_name, lookback)] =
                                    Some(resp)]
                        ELSE cache
            /\ UNCHANGED hits
    /\ UNCHANGED << cache_on, run >>

\* lines 141-145: the resolver returned; the window starts one step after it
ResolveReturn ==
    /\ pc = "resolving"
    /\ rpc = "returned"
    /\ watermark' = result
    /\ start_time_' = Some(Plus(Get(result), WatermarkStep))
    /\ rpc' = "idle"
    /\ result' = None
    /\ calls' = << >>
    /\ pc' = "check"
    /\ UNCHANGED << argv, local_offset, clock, start_time, end_time, idx, timeseries,
                    error_count, exc, exit_status, lookback, outcome >>
    /\ UNCHANGED history
    /\ UNCHANGED << cacheVars, measurements >>

\* lines 140-172: the resolver raised; the exception reaches the handler
ResolveRaise ==
    /\ pc = "resolving"
    /\ rpc = "raised"
    /\ rpc' = "idle"
    /\ calls' = << >>
    /\ pc' = "except"
    /\ UNCHANGED << argv, local_offset, clock, start_time, end_time, idx, watermark,
                    start_time_, timeseries, error_count, exc, exit_status, lookback,
                    result, outcome >>
    /\ UNCHANGED history
    /\ UNCHANGED << cacheVars, measurements >>

\* lines 146-150: a window that ends before it starts is skipped
CheckWindow ==
    /\ pc = "check"
    /\ IF WindowInvalid(Get(start_time_), Get(end_time))
       THEN NextMetric("SkippedInvalidWindow")
       ELSE /\ pc' = "fetch"
            /\ UNCHANGED << idx, outcome, watermark, start_time_, timeseries, log >>
    /\ UNCHANGED << argv, local_offset, clock, start_time, end_time, error_count,
                    exc, exit_status, sent >>
    /\ UNCHANGED resolverVars
    /\ UNCHANGED << cacheVars, measurements >>

\* the fetch or the write ends by raising
Raises(text) ==
    /\ exc' = text
    /\ pc' = "except"
    /\ UNCHANGED << idx, outcome, watermark >>

\* lines 155-158 and 36-77: get_observation_samples, answered by the API with `resp`
Fetch ==
    /\ pc = "fetch"
    /\ \E resp \in ApiResponses :
        /\ Send([kind |-> "fetch", metric |-> idx,
                 params |-> FetchParams(Catalog[idx].element_id, start_time_, end_time),
                 failed |-> resp.failed, status |-> 0])
        /\ IF resp.failed
           THEN Raises(TransportErrorText) /\ UNCHANGED timeseries
           ELSE IF resp.kind = "error"
           THEN Raises(ApiErrorText(resp.error)) /\ UNCHANGED timeseries
           ELSE IF \E i \in 1..Len(resp.data) : Unreadable(resp.data[i])
           THEN Raises(IndexErrorText) /\ UNCHANGED timeseries
           ELSE /\ timeseries' = Some(BuildTimeseries(resp.data,
                                                      Catalog[idx].metric_name))
                /\ pc' = "write"
                /\ UNCHANGED << exc, idx, outcome, watermark >>
    /\ UNCHANGED << argv, local_offset, clock, start_time, end_time, start_time_,
                    error_count, exit_status >>
    /\ UNCHANGED resolverVars
    /\ UNCHANGED << cacheVars, measurements >>

\* lines 160-171: the payload is posted, and the store answers with `resp`
Write ==
    /\ pc = "write"
    /\ \E resp \in WriteResponses :
        /\ Count(Request("write", idx, [json |-> Get(timeseries)], resp))
        /\ IF resp.failed
           THEN /\ Raises(TransportErrorText)
                /\ log' = Append(log, Request("write", idx,
                                               [json |-> Get(timeseries)], resp))
                /\ UNCHANGED << start_time_, timeseries >>
           ELSE /\ NextMetric(IF WriteAccepted(resp.status)
                              THEN "Succeeded" ELSE "WriteRejected")
                /\ UNCHANGED exc
    /\ UNCHANGED << argv, local_offset, clock, start_time, end_time, error_count,
                    exit_status >>
    /\ UNCHANGED resolverVars
    /\ UNCHANGED << cacheVars, measurements >>

\* lines 172-178: the handler of the loop body
Except ==
    /\ pc = "except"
    /\ IF IsNoData(exc)
       THEN /\ NextMetric("SkippedNoData")
            /\ UNCHANGED error_count
       ELSE /\ error_count' = CountFailure(error_count)
            /\ MoveOn("Failed", AfterFailure(idx))
    /\ exc' = << >>
    /\ UNCHANGED << argv, local_offset, clock, start_time, end_time, exit_status,
                    sent >>
    /\ UNCHANGED resolverVars
    /\ UNCHANGED << cacheVars, measurements >>

\* lines 181-183: the loop is over and the process ends
Exit ==
    /\ pc = "metric"
    /\ idx > Len(Catalog)
    /\ exit_status' = Some(ExitStatus(error_count))
    /\ pc' = "done"
    /\ UNCHANGED << argv, local_offset, clock, start_time, end_time, idx, watermark,
                    start_time_, timeseries, error_count, exc, outcome >>
    /\ UNCHANGED history
    /\ UNCHANGED resolverVars
    /\ UNCHANGED << cacheVars, measurements >>

Next ==
    \/ Start
    \/ BeginMetric
    \/ QueryStore
    \/ ResolveReturn
    \/ ResolveRaise
    \/ CheckWindow
    \/ Fetch
    \/ Write
    \/ Except
    \/ Exit

\* get_last_timestamp_in_metric called on its own, with any lookback
Lookbacks == { "1d", "7d", "30d" }

InitResolve ==
    /\ argv = << "frost" >>
    /\ local_offset \in LocalOffsets
    /\ clock \in ClockValues
    /\ pc = "caller"
    /\ start_time = None
    /\ end_time = None
    /\ idx \in Metrics
    /\ watermark = None
    /\ start_time_ = None
    /\ timeseries = None
    /\ error_count = 0
    /\ exc = << >>
    /\ exit_status = None
    /\ rpc = "call"
    /\ lookback \in Lookbacks
    /\ result = None
    /\ calls = << >>
    /\ log = << >>
    /\ sent = [m \in Metrics |-> [k \in {"query", "fetch", "write"} |->
                                    [n |-> 0, refused |-> 0]]]
    /\ outcome = [m \in Metrics |-> "Pending"]
    /\ cache_on = FALSE
    /\ cache = NothingCached
    /\ run = 1
    /\ hits = 0
    /\ measurements = << >>

SpecResolve == InitResolve /\ [][QueryStore]_vars

\* one run of main()
Spec == Init /\ [][Next]_vars

\* the run with its scheduling: a sequential process always takes its next step
FairSpec == Spec /\ WF_vars(Next)

\* the most runs of the process that are followed
MaxRuns == 2

\* lines 14-19: the process is started again; the import installs the cache
\* again, which opens what the earlier runs left in it
NextRun ==
    /\ pc = "caller"
    /\ rpc \in { "returned", "raised" }
    /\ run < MaxRuns
    /\ run' = run + 1
    /\ hits' = 0
    /\ rpc' = "call"
    /\ lookback' = DefaultLookback
    /\ result' = None
    /\ calls' = << >>
    /\ exc' = << >>
    /\ log' = << >>
    /\ sent' = [m \in Metrics |-> [k \in {"query", "fetch", "write"} |->
                                     [n |-> 0, refused |-> 0]]]
    /\ UNCHANGED << argv, local_offset, clock, cache_on, cache, measurements >>
    /\ UNCHANGED mainVars

\* the resolution of one metric's watermark, run after run; the import of
\* requests_cache succeeds or fails with the environment
InitRuns ==
    /\ argv = << "frost" >>
    /\ local_offset \in LocalOffsets
    /\ clock \in ClockValues
    /\ pc = "caller"
    /\ start_time = None
    /\ end_time = None
    /\ idx \in Metrics
    /\ watermark = None
    /\ start_time_ = None
    /\ timeseries = None
    /\ error_count = 0
    /\ exc = << >>
    /\ exit_status = None
    /\ rpc = "call"
    /\ lookback = DefaultLookback
    /\ result = None
    /\ calls = << >>
    /\ log = << >>
    /\ sent = [m \in Metrics |-> [k \in {"query", "fetch", "write"} |->
                                    [n |-> 0, refused |-> 0]]]
    /\ outcome = [m \in Metrics |-> "Pending"]
    /\ cache_on \in BOOLEAN
    /\ cache = NothingCached
    /\ run = 1
    /\ hits = 0
    /\ measurements = << >>

NextRuns ==
    \/ QueryThroughCache
    \/ NextRun

SpecRuns == InitRuns /\ [][NextRuns]_vars

\* the longest list of measurements that is built
MaxMeasurements == 3

BuildMeasurements == { M5, M5h, M7, M9 }
MeasurementLists ==
    UNION { [1..n -> BuildMeasurements] : n \in 0..MaxMeasurements }

\* lines 56-77: get_observation_samples builds the time series from the list
\* of measurements the API returned
Build ==
    /\ pc = "build"
    /\ IF \E i \in 1..Len(measurements) : Unreadable(measurements[i])
       THEN /\ exc' = IndexErrorText
            /\ pc' = "raised"
            /\ UNCHANGED timeseries
       ELSE /\ timeseries' = Some(BuildTimeseries(measurements,
                                                  Catalog[idx].metric_name))
            /\ pc' = "built"
            /\ UNCHANGED exc
    /\ UNCHANGED << argv, local_offset, clock, start_time, end_time, idx, watermark,
                    start_time_, error_count, exit_status, outcome, measurements >>
    /\ UNCHANGED history
    /\ UNCHANGED resolverVars
    /\ UNCHANGED cacheVars

\* get_observation_samples at the point where data["data"] is any list
InitBuild ==
    /\ argv = << "frost" >>
    /\ local_offset = 0
    /\ clock = FirstClock
    /\ pc = "build"
    /\ start_time = None
    /\ end_time = None
    /\ idx \in Metrics
    /\ watermark = None
    /\ start_time_ = None
    /\ timeseries = None
    /\ error_count = 0
    /\ exc = << >>
    /\ exit_status = None
    /\ rpc = "idle"
    /\ lookback = DefaultLookback
    /\ result = None
    /\ calls = << >>
    /\ log = << >>
    /\ sent = [m \in Metrics |-> [k \in {"query", "fetch", "write"} |->
                                    [n |-> 0, refused |-> 0]]]
    /\ outcome = [m \in Metrics |-> "Pending"]
    /\ cache_on = FALSE
    /\ cache = NothingCached
    /\ run = 1
    /\ hits = 0
    /\ measurements \in MeasurementLists

SpecBuild == InitBuild /\ [][Build]_vars

\* ----------------------------------------------------------------- claims

Terminal == { "Succeeded", "WriteRejected", "SkippedInvalidWindow",
              "SkippedNoData", "Failed" }

\* C1: failure isolation.  Whatever the store and the API answer, the run
\* ends with every catalog metric in a terminal state (under FairSpec: the
\* process keeps taking its next step), and a metric that ended Failed never
\* keeps a later metric from being processed: when the second metric
\* succeeded after the first failed, its write was sent.
FailureIsolation ==
    /\ <>[](pc = "done" /\ \A m \in Metrics : outcome[m] \in Terminal)
    /\ [](\A m \in Metrics :
            (outcome[m] = "Succeeded" /\ \E k \in 1..(m - 1) : outcome[k] = "Failed")
                => sent[m]["fetch"].n = 1 /\ sent[m]["write"].n = 1)

\* the first metric failed on an error that is not "No data found", and the
\* second was still resolved, fetched and written
SecondWrittenAfterFailure ==
    /\ pc = "done"
    /\ outcome[1] = "Failed"
    /\ outcome[2] = "Succeeded"
    /\ sent[2]["query"].n >= 1
    /\ sent[2]["write"].n = 1

\* C2: once every metric has been processed the process exits, with status 1
\* exactly when the failure counter is above 0 and with status 0 otherwise;
\* it has no exit status before.
ExitStatusIffFailures ==
    /\ pc = "done" =>
         /\ \A m \in Metrics : outcome[m] # "Pending"
         /\ exit_status # None
         /\ (Get(exit_status) = 1) <=> (error_count > 0)
         /\ (Get(exit_status) = 0) <=> (error_count = 0)
    /\ pc # "done" => exit_status = None

ExitedNonzero ==
    pc = "done" /\ error_count = 1 /\ exit_status = Some(1)

\* C3 (as claimed): a write answered with a status outside [200,300) counts
\* its metric as failed, so the run exits nonzero.
WriteFailureCounted ==
    (pc = "done" /\ \E m \in Metrics : sent[m]["write"].refused > 0)
        => (error_count > 0 /\ exit_status = Some(1))

\* the instant before the other, written out on the fields
Earlier(a, b) == a.sec < b.sec \/ (a.sec = b.sec /\ a.us < b.us)

\* the fetch requests in the log of the metric in progress
FetchesInLog == { i \in 1..Len(log) : log[i].kind = "fetch" }

\* C4 (as claimed): in watermark mode the window of a metric starts exactly
\* one millisecond after its resolved watermark and ends at the run's end time.
WindowStartsOneMillisecondAfter ==
    watermark # None =>
        /\ start_time_ = Some([sec |-> Get(watermark).sec
                                         + ((Get(watermark).us + 1000) \div 1000000),
                               us |-> (Get(watermark).us + 1000) % 1000000])
        /\ \A i \in FetchesInLog :
              log[i].params.referencetime[2] = ToIso8601(Get(end_time))

\* C4 (amended): in watermark mode the window of a metric starts exactly one
\* second after its resolved watermark and ends at the run's end time, a
\* reading of the clock taken when the run started; the fetch request carries
\* these two instants.
WindowStartsOneSecondAfter ==
    watermark # None =>
        /\ start_time = None
        /\ start_time_ = Some([sec |-> Get(watermark).sec + 1,
                               us |-> Get(watermark).us])
        /\ Get(end_time) \in ClockValues
        /\ ~Earlier(clock, Get(end_time))
        /\ \A i \in FetchesInLog :
              log[i].params.referencetime =
                  << ToIso8601([sec |-> Get(watermark).sec + 1,
                                us |-> Get(watermark).us]),
                     ToIso8601(Get(end_time)) >>

\* the store reported 1700000000 and the fetch was sent for one second later
FetchedFromWatermark ==
    /\ watermark = Some(Instant(1700000000, 0))
    /\ start_time_ = Some(Instant(1700000001, 0))
    /\ FetchesInLog # {}

\* C5: a metric whose window ends before it starts is skipped: no fetch and no
\* write is sent for it, the failure counter is unchanged and the loop goes
\* on with the next metric; a window that does not end before it starts
\* (start = end included) goes on to the fetch.  So every fetch request sent
\* has start <= end.
InvalidWindowSkipped ==
    /\ [](\A i \in FetchesInLog :
            ~Earlier(ParseIso(log[i].params.referencetime[2]),
                     ParseIso(log[i].params.referencetime[1])))
    /\ [](\A m \in Metrics :
            outcome[m] = "SkippedInvalidWindow"
                => sent[m]["fetch"].n = 0 /\ sent[m]["write"].n = 0)
    /\ [][pc = "check" =>
            IF Earlier(Get(end_time), Get(start_time_))
            THEN /\ outcome'[idx] = "SkippedInvalidWindow"
                 /\ error_count' = error_count
                 /\ sent' = sent
                 /\ idx' = idx + 1
                 /\ pc' = "metric"
            ELSE pc' = "fetch"]_vars

\* the first metric was skipped for its window, the second was still written
SkippedThenWritten ==
    /\ pc = "done"
    /\ outcome = << "SkippedInvalidWindow", "Succeeded" >>
    /\ error_count = 0

\* the message holds the words No, data, found in a row
HoldsNoDataFound(msg) ==
    \E i \in 1..(Len(msg) - 2) :
        msg[i] = "No" /\ msg[i + 1] = "data" /\ msg[i + 2] = "found"

\* C6: when the fetch of a metric raises an error whose message contains
\* "No data found", the metric ends as SkippedNoData, no write is sent for
\* it, the failure counter is unchanged, and the loop goes on with the next
\* metric.
NoDataIsBenignSkip ==
    /\ [][(/\ pc = "except"
           /\ sent[idx]["fetch"].n = 1
           /\ sent[idx]["write"].n = 0
           /\ HoldsNoDataFound(exc))
          => /\ outcome'[idx] = "SkippedNoData"
             /\ error_count' = error_count
             /\ sent' = sent
             /\ idx' = idx + 1
             /\ pc' = "metric"]_vars
    /\ [](\A m \in Metrics :
            (outcome[m] = "SkippedNoData" /\ sent[m]["fetch"].n = 1)
                => sent[m]["write"].n = 0)

\* the first metric had no data, nothing failed, and the second was written
NoDataThenWritten ==
    /\ pc = "done"
    /\ outcome = << "SkippedNoData", "Succeeded" >>
    /\ sent[1]["fetch"].n = 1
    /\ sent[1]["write"].n = 0
    /\ error_count = 0
    /\ exit_status = Some(0)

\* the instant each value of StoreValues denotes
ReportedInstant(v) ==
    CASE v = Str1700000000  -> Instant(1700000000, 0)
      [] v = Str1701388798h -> Instant(1701388798, 500000)
      [] v = Str1701388900  -> Instant(1701388900, 0)

\* r is the first instant of the calendar month the clock reading is in
StartsCurrentMonth(r) ==
    LET now == ToCivil(clock, local_offset)
        c   == ToCivil(r, local_offset)
    IN  /\ c.year = now.year /\ c.month = now.month /\ c.day = 1
        /\ c.hour = 0 /\ c.minute = 0 /\ c.second = 0 /\ c.us = 0

\* C7: a resolution that starts at the 1-day tier returns the timestamp the
\* 1-day query reports when its result is not empty; otherwise the timestamp
\* the 30-day query reports when that result is not empty ("1700000000" is
\* 2023-11-14T22:13:20Z); otherwise the start of the current calendar month.
ResolveTwoTiers ==
    (rpc = "returned" /\ calls[1][1] = "1d") =>
        LET r1 == calls[1][2].body.result
        IN  IF Len(r1) > 0
            THEN /\ Len(calls) = 1
                 /\ result = Some(ReportedInstant(r1[1].value[2]))
            ELSE /\ Len(calls) = 2
                 /\ calls[2][1] = "30d"
                 /\ LET r2 == calls[2][2].body.result
                    IN  IF Len(r2) > 0
                        THEN /\ result = Some(ReportedInstant(r2[1].value[2]))
                             /\ r2[1].value[2] = Str1700000000 =>
                                  ToCivil(Get(result), 0) =
                                      [year |-> 2023, month |-> 11, day |-> 14,
                                       hour |-> 22, minute |-> 13, second |-> 20,
                                       us |-> 0]
                        ELSE StartsCurrentMonth(Get(result))

\* the 1-day tier was empty and the 30-day tier reported 1700000000
ResolvedOnSecondTier ==
    /\ rpc = "returned"
    /\ Len(calls) = 2
    /\ calls[1][1] = "1d"
    /\ calls[2][2].body.result # << >>
    /\ result = Some(Instant(1700000000, 0))

\* C8: a query answered with a status outside [200,300), on either tier, ends
\* the resolution with an error: it is the last request sent for the metric
\* (no wider query, no fetch, no write), nothing is returned and no window
\* start is computed from a fallback.
QueryRejectionIsFatal ==
    \A m \in Metrics :
        sent[m]["query"].refused > 0 =>
            /\ sent[m]["query"].refused = 1
            /\ sent[m]["fetch"].n = 0
            /\ sent[m]["write"].n = 0
            /\ outcome[m] \in { "Pending", "Failed", "SkippedNoData" }
            /\ (idx = m /\ pc # "metric") =>
                 /\ pc \in { "resolving", "except" }
                 /\ rpc \in { "raised", "idle" }
                 /\ exc # << >>
                 /\ result = None
                 /\ watermark = None
                 /\ start_time_ = None
                 /\ Len(log) = sent[m]["query"].n
                 /\ log[Len(log)].kind = "query"
                 /\ (log[Len(log)].status < 200 \/ log[Len(log)].status > 299)

\* the 30-day query of the first metric was answered outside [200,300)
RejectedOnSecondTier ==
    /\ pc = "done"
    /\ sent[1]["query"].n = 2
    /\ sent[1]["query"].refused = 1

\* C9: whatever the store answers and whatever lookback the call starts
\* with, one resolution sends at most two queries, the second always with
\* the 30-day lookback and none after a 30-day query; a call always gets its
\* answer, and after two queries or a 30-day query it has returned a
\* timestamp or raised.
ResolveBounded ==
    /\ Len(calls) <= 2
    /\ sent[idx]["query"].n = Len(calls)
    /\ Len(calls) = 2 => calls[2][1] = "30d"
    /\ \A i \in 1..(Len(calls) - 1) : calls[i][1] # "30d"
    /\ (Len(calls) = 2 \/ (Len(calls) = 1 /\ calls[1][1] = "30d"))
           => rpc \in { "returned", "raised" }
    /\ rpc = "call" => ENABLED QueryStore
    /\ rpc = "returned" => result # None
    /\ rpc = "raised" => exc # << >>

\* a call that started with lookback 7d returned after its second query
ReturnedAfterTwoQueries ==
    /\ rpc = "returned"
    /\ Len(calls) = 2
    /\ calls[1][1] = "7d"

\* C10: in a run started with an explicit window no watermark query is sent
\* and every fetch request carries the start and the end given on the command
\* line, the same for every metric.
ExplicitWindowBypassesResolver ==
    Len(argv) >= 3 =>
        /\ \A m \in Metrics : sent[m]["query"].n = 0
        /\ rpc = "idle"
        /\ watermark = None
        /\ \A i \in FetchesInLog :
              log[i].params.referencetime = << argv[2], argv[3] >>

\* both metrics were fetched with the window of the command line
BothFetchedWithGivenWindow ==
    /\ Len(argv) >= 3
    /\ idx = 2
    /\ sent[1]["fetch"].n = 1
    /\ FetchesInLog # {}

\* C11: the answer to a write is classified by its status alone: the metric is
\* logged as succeeded exactly when the status is in [200,300) and as rejected
\* otherwise, and an answer with any status leaves no exception in flight and
\* the failure counter as it was; the write step raises only when the request
\* got no answer at all.
WriteClassifiedByStatus ==
    [][pc = "write" =>
         /\ sent'[idx]["write"].n = sent[idx]["write"].n + 1
         /\ IF pc' = "except"
            THEN /\ log'[Len(log')].kind = "write"
                 /\ log'[Len(log')].failed
                 /\ sent'[idx]["write"].refused = sent[idx]["write"].refused
            ELSE /\ pc' = "metric"
                 /\ exc' = << >>
                 /\ error_count' = error_count
                 /\ outcome'[idx] = IF sent'[idx]["write"].refused = 0
                                    THEN "Succeeded" ELSE "WriteRejected"]_vars

\* the first metric's write was answered outside [200,300) and the loop went on
WriteRefusedWithoutRaising ==
    /\ pc = "metric"
    /\ idx = 2
    /\ outcome[1] = "WriteRejected"
    /\ sent[1]["write"].refused = 1
    /\ exc = << >>

\* C13: the failure counter is the number of metrics whose processing raised
\* an exception whose text does not hold "No data found": each such metric
\* adds exactly one, every other step (a success, a refused write, a skip)
\* adds nothing, so the counter never decreases and never exceeds the number
\* of catalog metrics.
FailureCounterAccounting ==
    /\ [](/\ error_count = Cardinality({ m \in Metrics : outcome[m] = "Failed" })
          /\ error_count <= Len(Catalog))
    /\ [][error_count' = error_count
                          + (IF pc = "except" /\ ~HoldsNoDataFound(exc)
                             THEN 1 ELSE 0)]_vars

\* both metrics raised an error other than "No data found"
BothMetricsCounted ==
    /\ pc = "done"
    /\ error_count = 2
    /\ \A m \in Metrics : outcome[m] = "Failed"

\* the place of a request kind in the pipeline of one metric
Stage(kind) == CASE kind = "query" -> 1 [] kind = "fetch" -> 2 [] kind = "write" -> 3

\* the requests of metric m sent so far in the run
SentFor(m) == sent[m]["query"].n + sent[m]["fetch"].n + sent[m]["write"].n

\* C14: the metrics are processed one after another in catalog order, with no
\* retry: a metric gets requests only while the loop is at it, every earlier
\* metric has reached its terminal state and no later metric has any request;
\* the requests of a metric go watermark queries, then fetch, then write; each
\* metric has at most one fetch and at most one write per run; and a write is
\* sent only when that metric's fetch returned a payload (never after an
\* invalid window, a resolution error or a fetch error).
PipelineInOrder ==
    /\ [](/\ \A m \in Metrics :
               /\ sent[m]["fetch"].n <= 1
               /\ sent[m]["write"].n <= sent[m]["fetch"].n
               /\ m > idx => SentFor(m) = 0
               /\ m < idx => outcome[m] \in Terminal
               /\ m >= idx => outcome[m] = "Pending"
          /\ \A i \in 1..Len(log) :
               /\ log[i].metric = idx
               /\ \A j \in 1..Len(log) :
                    i < j => /\ Stage(log[i].kind) <= Stage(log[j].kind)
                             /\ log[j].kind # "query" => log[i].kind # log[j].kind
          /\ pc = "write" =>
               /\ timeseries # None
               /\ exc = << >>
               /\ log[Len(log)].kind = "fetch"
               /\ ~log[Len(log)].failed)
    /\ [][/\ idx' \in { idx, idx + 1 }
          /\ \A m \in Metrics :
               /\ SentFor(m)' > SentFor(m) =>
                    m = idx /\ SentFor(m)' = SentFor(m) + 1
               /\ sent'[m]["query"].n > sent[m]["query"].n =>
                    pc = "resolving" /\ sent[m]["fetch"].n = 0
               /\ sent'[m]["fetch"].n > sent[m]["fetch"].n =>
                    pc = "fetch" /\ sent[m]["write"].n = 0
               /\ sent'[m]["write"].n > sent[m]["write"].n =>
                    pc = "write" /\ sent[m]["fetch"].n = 1]_vars

\* the second metric's write is about to be sent, after the first metric went
\* through query, fetch and write
SecondWriteAfterFirstPipeline ==
    /\ pc = "write"
    /\ idx = 2
    /\ sent[1]["query"].n = 1
    /\ sent[1]["fetch"].n = 1
    /\ sent[1]["write"].n = 1
    /\ Len(log) = 3
    /\ log[1].kind = "query"
    /\ log[2].kind = "query"

\* the whole seconds next to the watermark w and to the end e of the run
WholeSecondsNear(w, e) ==
    { Instant(w.sec + k, 0) : k \in 0..2 } \cup { Instant(e.sec + k, 0) : k \in {-1, 0, 1} }

\* the whole second t is later than the watermark w and not later than e
NewlyObserved(t, w, e) == Earlier(w, t) /\ ~Earlier(e, t)

\* C17: in watermark mode, when the resolved watermark W is a whole number of
\* seconds and the run ends at E, every whole second t with W < t <= E lies
\* inside the window [start, E] of the fetch request, W itself lies before the
\* window, and a metric for which such a t exists is not skipped as an
\* invalid window.
NoGapAfterWatermark ==
    (watermark # None /\ Get(watermark).us = 0) =>
        /\ \A i \in FetchesInLog :
             /\ ParseIso(log[i].params.referencetime[2]) = Get(end_time)
             /\ Earlier(Get(watermark), ParseIso(log[i].params.referencetime[1]))
             /\ \A t \in WholeSecondsNear(Get(watermark), Get(end_time)) :
                  NewlyObserved(t, Get(watermark), Get(end_time)) =>
                      /\ ~Earlier(t, ParseIso(log[i].params.referencetime[1]))
                      /\ ~Earlier(ParseIso(log[i].params.referencetime[2]), t)
        /\ (\E t \in WholeSecondsNear(Get(watermark), Get(end_time)) :
               NewlyObserved(t, Get(watermark), Get(end_time)))
             => ~Earlier(Get(end_time), Get(start_time_))

\* a fetch was sent from the start of November, for a run that ended half a
\* second after a whole second
FetchedFromWholeSecondWatermark ==
    /\ watermark = Some(Instant(MonthEdge - 30 * SecPerDay, 0))
    /\ Get(end_time).us = 500000
    /\ FetchesInLog # {}
    /\ NewlyObserved(Instant(MonthEdge - 30 * SecPerDay + 1, 0),
                     Get(watermark), Get(end_time))

\* C18: the "No data found" test is applied to an exception of any stage.
\* When the resolver raises on a query answered outside [200,300), its
\* message holds "No data found" exactly when the text of the response does;
\* the handler then ends the metric as SkippedNoData with the failure counter
\* unchanged and goes on, and a run of such metrics exits with status 0.
NoDataFromResolverIsBenign ==
    /\ []((/\ pc = "resolving"
           /\ rpc = "raised"
           /\ ~calls[Len(calls)][2].failed
           /\ (calls[Len(calls)][2].status < 200 \/ calls[Len(calls)][2].status > 299))
          => (HoldsNoDataFound(exc)
                <=> HoldsNoDataFound(calls[Len(calls)][2].body.text)))
    /\ [][(/\ pc = "except"
           /\ sent[idx]["fetch"].n = 0
           /\ sent[idx]["query"].refused = 1
           /\ HoldsNoDataFound(exc))
          => /\ outcome'[idx] = "SkippedNoData"
             /\ error_count' = error_count
             /\ idx' = idx + 1
             /\ pc' = "metric"]_vars
    /\ []((/\ pc = "done"
           /\ \A m \in Metrics : /\ outcome[m] = "SkippedNoData"
                                 /\ sent[m]["query"].refused = 1)
          => exit_status = Some(0))

\* the run ended with status 0 after the first metric's watermark query was
\* refused with "No data found" in the text of the response
RefusedQuerySkippedAsNoData ==
    /\ pc = "done"
    /\ outcome[1] = "SkippedNoData"
    /\ sent[1]["query"].refused = 1
    /\ sent[1]["fetch"].n = 0
    /\ error_count = 0
    /\ exit_status = Some(0)

\* C19 (as claimed): a metric with no history is always fetched.  When the
\* last query of a resolution was answered with an empty result, so that the
\* resolver returned the start-of-month fallback, the window start main()
\* derives from it is never later than the end time of the run.
NoHistoryAlwaysFetched ==
    [][(/\ pc = "resolving"
        /\ rpc = "returned"
        /\ calls[Len(calls)][2].body.kind = "json"
        /\ Len(calls[Len(calls)][2].body.result) = 0)
       => /\ pc' = "check"
          /\ ~Earlier(Get(end_time), Get(start_time_'))]_vars

\* C12 (as claimed): watermarks are resolved fresh on each run.  In every
\* run, the watermark a resolution returns rests only on answers the store
\* gave to queries of that run: none of the answers was given by the HTTP
\* response cache from what an earlier run left in it.
WatermarkResolvedFresh ==
    rpc = "returned" => hits = 0

\* the number a value of the measurements reads as, in units and millionths
NumberWritten(v) ==
    CASE v = << "1", ".", "5" >> -> [int |-> 1, millionths |-> 500000]
      [] v = << "2" >>           -> [int |-> 2, millionths |-> 0]
      [] v = << "9" >>           -> [int |-> 9, millionths |-> 0]

\* C15: building the samples is an order-preserving one-to-one map of the
\* measurement list, and a function of that list alone: the series has exactly
\* one sample per measurement, the i-th sample carries the time of the i-th
\* measurement and the value of its first observation, with nothing sorted
\* and no repeated measurement dropped.
SamplesFollowMeasurements ==
    pc = "built" =>
        /\ Len(Get(timeseries).samples) = Len(measurements)
        /\ \A i \in 1..Len(measurements) :
             /\ Get(timeseries).samples[i][2]
                  = NumberWritten(measurements[i].observations[1].value)
             /\ Get(timeseries).samples[i][1].thousands % 60
                  = measurements[i].referenceTime.second

\* a list that is out of time order and repeats a measurement was built
BuiltUnsortedWithRepeat ==
    /\ pc = "built"
    /\ measurements = << M7, M5, M5 >>
    /\ Len(Get(timeseries).samples) = 3

\* the decimal digits of a natural number
DecimalDigit(n) == << "0", "1", "2", "3", "4", "5", "6", "7", "8", "9" >>[n + 1]
RECURSIVE Decimal(_)
Decimal(n) == IF n < 10 THEN << DecimalDigit(n) >>
              ELSE Append(Decimal(n \div 10), DecimalDigit(n % 10))

\* the decimal digits of a number of milliseconds
MillisDigits(ms) ==
    Decimal(ms.thousands)
        \o << DecimalDigit(ms.rest \div 100), DecimalDigit((ms.rest \div 10) % 10),
              DecimalDigit(ms.rest % 10) >>

\* C16: the timestamp of every sample is 1000 times the whole seconds since
\* the epoch of the measurement's reference time, the part below a second
\* dropped: a multiple of 1000, and 1672531205000 for 2023-01-01T00:00:05Z.
TimestampIsWholeSecondsTimes1000 ==
    pc = "built" =>
        \A i \in 1..Len(measurements) :
            /\ Get(timeseries).samples[i][1].rest = 0
            /\ Get(timeseries).samples[i][1].thousands
                 = 1672531200 + measurements[i].referenceTime.second
            /\ measurements[i].referenceTime.second = 5 =>
                 MillisDigits(Get(timeseries).samples[i][1])
                   = << "1","6","7","2","5","3","1","2","0","5","0","0","0" >>

\* a measurement taken half a second after 00:00:05 was built into a sample
SubSecondReferenceTimeBuilt ==
    /\ pc = "built"
    /\ Len(measurements) = 1
    /\ measurements[1].referenceTime.second = 5
    /\ measurements[1].referenceTime.us = 500000
    /\ Get(timeseries).samples[1][1] = [thousands |-> 1672531205, rest |-> 0]

====
